---- MODULE Spec2Model ----
(***************************************************************************)
(* Blinded Diffie-Hellman key agreement of package dhgroup14               *)
(* (src/dhgroup14.go), with the group scaled down so that the arithmetic   *)
(* can be enumerated: a byte has ByteBase values instead of 256, a private *)
(* key has PrivateKeySize bytes instead of 32, a public key has            *)
(* PublicKeySize bytes instead of 256, and the modulus is the widest safe  *)
(* prime of that many bytes that, like the RFC 3526 group 14 prime, is     *)
(* 7 mod 8 (so that the generator 2 has prime order (p - 1) / 2).          *)
(* twoExp256 is the power of the byte base just above every private key,   *)
(* as 2^256 is for 32 bytes of 8 bits.                                     *)
(***************************************************************************)
EXTENDS Integers, Sequences, FiniteSets, TLC

VARIABLES
    request,    \* the API call a caller is about to make, with its arguments
    call,       \* that call once made: arguments, reader contents and returns
    keys,       \* the key pair each party of an exchange generated
    shared,     \* what SharedKey returned to each party of an exchange
    globals,    \* the values of the package variables modulus, generator, twoExp256
    frames      \* per goroutine: the call it runs, its position and its locals

vars == <<request, call, keys, shared, globals, frames>>

\* Scaling of the model (the source has 256, 32 and 256).
ByteBase == 2
PrivateKeySize == 2
PublicKeySize == 5
SharedKeySize == PublicKeySize

Byte == 0 .. (ByteBase - 1)

\* The nil slice and the nil error.
nil == <<>>
NoErr == ""

ErrPrivateKeySize == "dhgroup14: wrong private key size"
ErrPublicKeySize == "dhgroup14: wrong public key size"
ErrPublicKeyTooLarge == "dhgroup14: public key is too large"
ErrResultTooLarge == "dhgroup14: result is too large"
ErrEOF == "EOF"
ErrUnexpectedEOF == "unexpected EOF"
\* copy(result[len(result)-len(rb):], rb) with len(rb) > len(result)
PanicSliceBounds == "panic: slice bounds out of range"
\* r1.Mul(r1, r2) with r2 the nil that Exp returns when no inverse exists
PanicNilDeref == "panic: nil pointer dereference"

RECURSIVE Pow(_, _)
Pow(b, e) == IF e = 0 THEN 1 ELSE b * Pow(b, e - 1)

\* big.Int.SetBytes: buf as a big-endian unsigned integer.
RECURSIVE SetBytes(_)
SetBytes(buf) ==
    IF Len(buf) = 0 THEN 0
    ELSE SetBytes(SubSeq(buf, 1, Len(buf) - 1)) * ByteBase + buf[Len(buf)]

\* big.Int.Bytes: the big-endian bytes of x without leading zeros.
RECURSIVE Bytes(_)
Bytes(x) ==
    IF x = 0 THEN <<>> ELSE Append(Bytes(x \div ByteBase), x % ByteBase)

\* big.Int.BitLen: the length of |x| in bits, 0 for 0.
RECURSIVE BitLen(_)
BitLen(x) == IF x = 0 THEN 0 ELSE 1 + BitLen(x \div 2)

\* make([]byte, n)
RECURSIVE make(_)
make(n) == IF n = 0 THEN <<>> ELSE <<0>> \o make(n - 1)

IsPrime(p) == p > 1 /\ \A d \in 2 .. (p - 1) : p % d # 0

\* The group: a safe prime, 7 mod 8, filling PublicKeySize bytes and leaving
\* modulus + 1 representable in as many bytes.
IsGroupPrime(p) ==
    /\ p % 8 = 7
    /\ IsPrime(p)
    /\ IsPrime((p - 1) \div 2)

modulus ==
    CHOOSE p \in 1 .. (Pow(ByteBase, PublicKeySize) - 2) :
        /\ IsGroupPrime(p)
        /\ \A q \in (p + 1) .. (Pow(ByteBase, PublicKeySize) - 2) : ~IsGroupPrime(q)

generator == 2
twoExp256 == Pow(ByteBase, PrivateKeySize)

\* Square-and-multiply x^y mod m, for y >= 0.
RECURSIVE ModPow(_, _, _)
ModPow(x, y, m) ==
    IF y = 0 THEN 1 % m
    ELSE LET h == ModPow(x, y \div 2, m)
             s == (h * h) % m
         IN  IF y % 2 = 1 THEN (s * (x % m)) % m ELSE s

HasInverse(x, m) == \E i \in 1 .. (m - 1) : (x * i) % m = 1
ModInverse(x, m) == CHOOSE i \in 1 .. (m - 1) : (x * i) % m = 1

\* big.Int.Exp(x, y, m) for m > 0: x^y mod m; a negative y exponentiates the
\* modular inverse of x, and the result is the nil pointer (ExpNil) when x has
\* no inverse.
ExpNil == -1
Exp(x, y, m) ==
    IF y >= 0 THEN ModPow(x, y, m)
    ELSE IF HasInverse(x % m, m) THEN ModPow(ModInverse(x % m, m), 0 - y, m)
    ELSE ExpNil

\* io.ReadFull(rand, buf) on a reader holding the bytes rand: fills n bytes,
\* or fails with what it could read consumed.
ReadFull(rand, n) ==
    IF Len(rand) >= n
    THEN [buf |-> SubSeq(rand, 1, n), err |-> NoErr, n |-> n,
          rest |-> SubSeq(rand, n + 1, Len(rand))]
    ELSE [buf |-> nil, n |-> Len(rand), rest |-> <<>>,
          err |-> IF Len(rand) = 0 THEN ErrEOF ELSE ErrUnexpectedEOF]

\* A return before any exponentiation. reads lists, per io.ReadFull call made,
\* the number of bytes it consumed; exps lists the exponents handed to Exp.
EarlyReturn(err, reads) ==
    [result |-> nil, err |-> err, reads |-> reads, exps |-> <<>>]

\* priv after the four priv.Add(priv, twoExp256).
TruePrivThreeAdds(privateKey) ==
    SetBytes(privateKey) + twoExp256 + twoExp256 + twoExp256
TruePriv(privateKey) ==
    SetBytes(privateKey) + twoExp256 + twoExp256 + twoExp256 + twoExp256

\* blinding after blinding.Add(blinding, twoExp256).
BlindingNoOffset(blindingBytes) == SetBytes(blindingBytes)
Blinding(blindingBytes) == SetBytes(blindingBytes) + twoExp256

\* r1.Mul(r1, r2); r1.Mod(r1, modulus).
CombineForgetR2(r1, r2) == r1 % modulus
CombineNoMod(r1, r2) == r1 * r2
CombineAdd(r1, r2) == (r1 + r2) % modulus
Combine(r1, r2) == (r1 * r2) % modulus

\* The tail of blindedModExp: the size check and the encoding of r1.
Encode(r1, reads, exps) ==
    IF BitLen(r1) > BitLen(modulus)
    THEN [result |-> nil, err |-> ErrResultTooLarge, reads |-> reads, exps |-> exps]
    ELSE LET result == make(PublicKeySize)
             rb == Bytes(r1)
         IN  IF Len(rb) > Len(result)
             THEN [result |-> nil, err |-> PanicSliceBounds, reads |-> reads,
                   exps |-> exps]
             ELSE [result |-> SubSeq(result, 1, Len(result) - Len(rb)) \o rb,
                   err |-> NoErr, reads |-> reads, exps |-> exps]

\* blindedModExp(rand, a, privateKey): result and error, with the number of
\* bytes read from rand and the exponents handed to Exp.
blindedModExpShortRead(rand, a, privateKey) ==
    LET priv == TruePriv(privateKey)
        rd == ReadFull(rand, PrivateKeySize - 1)
    IN  IF rd.err # NoErr THEN EarlyReturn(rd.err, <<rd.n>>)
        ELSE LET blinding == Blinding(rd.buf)
                 privBlinded == priv - blinding
                 r1 == Exp(a, blinding, modulus)
                 r2 == Exp(a, privBlinded, modulus)
                 exps == <<blinding, privBlinded>>
             IN  IF r1 = ExpNil \/ r2 = ExpNil
                 THEN [result |-> nil, err |-> PanicNilDeref, reads |-> <<rd.n>>,
                       exps |-> exps]
                 ELSE Encode(Combine(r1, r2), <<rd.n>>, exps)

blindedModExp(rand, a, privateKey) ==
    LET priv == TruePriv(privateKey)
        rd == ReadFull(rand, PrivateKeySize)
    IN  IF rd.err # NoErr THEN EarlyReturn(rd.err, <<rd.n>>)
        ELSE LET blinding == Blinding(rd.buf)
                 privBlinded == priv - blinding
                 r1 == Exp(a, blinding, modulus)
                 r2 == Exp(a, privBlinded, modulus)
                 exps == <<blinding, privBlinded>>
             IN  IF r1 = ExpNil \/ r2 = ExpNil
                 THEN [result |-> nil, err |-> PanicNilDeref, reads |-> <<rd.n>>,
                       exps |-> exps]
                 ELSE Encode(Combine(r1, r2), <<rd.n>>, exps)

GeneratePublicKeyNoCheck(rand, privateKey) ==
    blindedModExp(rand, generator, privateKey)
GeneratePublicKey(rand, privateKey) ==
    IF Len(privateKey) # PrivateKeySize
    THEN EarlyReturn(ErrPrivateKeySize, <<>>)
    ELSE blindedModExp(rand, generator, privateKey)

KeyPairReturn(publicKey, privateKey, err, reads, exps) ==
    [publicKey |-> publicKey, privateKey |-> privateKey, err |-> err,
     reads |-> reads, exps |-> exps]

GenerateKeyPairLeak(rand) ==
    LET rd == ReadFull(rand, PrivateKeySize)
        pk == GeneratePublicKey(rd.rest, rd.buf)
    IN  IF rd.err # NoErr THEN KeyPairReturn(nil, nil, rd.err, <<rd.n>>, <<>>)
        ELSE KeyPairReturn(pk.result, rd.buf, pk.err, <<rd.n>> \o pk.reads, pk.exps)
GenerateKeyPair(rand) ==
    LET rd == ReadFull(rand, PrivateKeySize)
    IN  IF rd.err # NoErr THEN KeyPairReturn(nil, nil, rd.err, <<rd.n>>, <<>>)
        ELSE LET pk == GeneratePublicKey(rd.rest, rd.buf)
             IN  IF pk.err # NoErr
                 THEN KeyPairReturn(nil, nil, pk.err, <<rd.n>> \o pk.reads, pk.exps)
                 ELSE KeyPairReturn(pk.result, rd.buf, NoErr, <<rd.n>> \o pk.reads,
                                    pk.exps)

SharedKeyCmpOffByOne(rand, theirPublicKey, myPrivateKey) ==
    IF Len(theirPublicKey) # PublicKeySize
    THEN EarlyReturn(ErrPublicKeySize, <<>>)
    ELSE IF Len(myPrivateKey) # PrivateKeySize
    THEN EarlyReturn(ErrPrivateKeySize, <<>>)
    ELSE LET bp == SetBytes(theirPublicKey)
         IN  IF bp > modulus
             THEN EarlyReturn(ErrPublicKeyTooLarge, <<>>)
             ELSE blindedModExp(rand, bp, myPrivateKey)
SharedKey(rand, theirPublicKey, myPrivateKey) ==
    IF Len(theirPublicKey) # PublicKeySize
    THEN EarlyReturn(ErrPublicKeySize, <<>>)
    ELSE IF Len(myPrivateKey) # PrivateKeySize
    THEN EarlyReturn(ErrPrivateKeySize, <<>>)
    ELSE LET bp == SetBytes(theirPublicKey)
         IN  IF bp >= modulus
             THEN EarlyReturn(ErrPublicKeyTooLarge, <<>>)
             ELSE blindedModExp(rand, bp, myPrivateKey)

(***************************************************************************)
(* Inputs.                                                                 *)
(***************************************************************************)
Seqs(n) == [1 .. n -> Byte]
Zeros(n) == [i \in 1 .. n |-> 0]
Maxes(n) == [i \in 1 .. n |-> ByteBase - 1]

\* Slices of a wrong length around size n: all-zero and all-max bytes.
WrongSize(n) == UNION {{Zeros(k), Maxes(k)} : k \in {0, n - 1, n + 1}}

PrivateKeyInputs == Seqs(PrivateKeySize) \cup WrongSize(PrivateKeySize)
PublicKeyInputs == Seqs(PublicKeySize) \cup WrongSize(PublicKeySize)

\* Contents of the reader handed to a call that reads at most n bytes: every
\* content of n bytes, and all-zero and all-max contents that are shorter (the
\* reader fails early) or longer.
Readers(n) == Seqs(n) \cup UNION {{Zeros(k), Maxes(k)} : k \in 0 .. (n + 1)}

Requests ==
    {[op |-> "GenerateKeyPair", theirPublicKey |-> nil, privateKey |-> nil]}
    \cup {[op |-> "GeneratePublicKey", theirPublicKey |-> nil, privateKey |-> k] :
             k \in PrivateKeyInputs}
    \cup {[op |-> "SharedKey", theirPublicKey |-> t, privateKey |-> k] :
             t \in PublicKeyInputs, k \in PrivateKeyInputs}

NoCall ==
    [op |-> "none", theirPublicKey |-> nil, privateKey |-> nil, rand |-> <<>>,
     publicKey |-> nil, privateKeyOut |-> nil, sharedKey |-> nil, err |-> NoErr,
     reads |-> <<>>, exps |-> <<>>]

Party == {"A", "B"}
Peer(p) == IF p = "A" THEN "B" ELSE "A"
NoKeys == [publicKey |-> nil, privateKey |-> nil]
NotDerived == [called |-> FALSE, sharedKey |-> nil, err |-> NoErr]

\* The package variables as initialised at lines 28-54.
PackageVars ==
    [modulus |-> modulus, generator |-> generator, twoExp256 |-> twoExp256]

Goroutine == {"g1", "g2"}

Idle ==
    [pc |-> "idle", op |-> "none", theirPublicKey |-> nil, privateKey |-> nil,
     rand0 |-> <<>>, rand |-> <<>>, reads |-> <<>>, aIsGenerator |-> FALSE,
     bp |-> 0, priv |-> 0, adds |-> 0, blinding |-> 0, privBlinded |-> 0,
     r1 |-> 0, r2 |-> 0, publicKey |-> nil, privateKeyOut |-> nil,
     sharedKey |-> nil, err |-> NoErr]

(***************************************************************************)
(* A single call on arbitrary arguments.                                   *)
(***************************************************************************)
Init ==
    /\ request \in Requests
    /\ call = NoCall
    /\ keys = [p \in Party |-> NoKeys]
    /\ shared = [p \in Party |-> NotDerived]
    /\ globals = PackageVars
    /\ frames = [g \in Goroutine |-> Idle]

CallGenerateKeyPair ==
    /\ call.op = "none"
    /\ request.op = "GenerateKeyPair"
    /\ \E rand \in Readers(2 * PrivateKeySize) :
         LET r == GenerateKeyPair(rand)
         IN  call' = [NoCall EXCEPT !.op = request.op, !.rand = rand,
                          !.publicKey = r.publicKey,
                          !.privateKeyOut = r.privateKey, !.err = r.err,
                          !.reads = r.reads, !.exps = r.exps]
    /\ UNCHANGED <<request, keys, shared, globals, frames>>

CallGeneratePublicKey ==
    /\ call.op = "none"
    /\ request.op = "GeneratePublicKey"
    /\ \E rand \in Readers(PrivateKeySize) :
         LET r == GeneratePublicKey(rand, request.privateKey)
         IN  call' = [NoCall EXCEPT !.op = request.op, !.rand = rand,
                          !.privateKey = request.privateKey,
                          !.publicKey = r.result, !.err = r.err,
                          !.reads = r.reads, !.exps = r.exps]
    /\ UNCHANGED <<request, keys, shared, globals, frames>>

CallSharedKey ==
    /\ call.op = "none"
    /\ request.op = "SharedKey"
    /\ \E rand \in Readers(PrivateKeySize) :
         LET r == SharedKey(rand, request.theirPublicKey, request.privateKey)
         IN  call' = [NoCall EXCEPT !.op = request.op, !.rand = rand,
                          !.theirPublicKey = request.theirPublicKey,
                          !.privateKey = request.privateKey,
                          !.sharedKey = r.result, !.err = r.err,
                          !.reads = r.reads, !.exps = r.exps]
    /\ UNCHANGED <<request, keys, shared, globals, frames>>

Next == CallGenerateKeyPair \/ CallGeneratePublicKey \/ CallSharedKey

Spec == Init /\ [][Next]_vars

(***************************************************************************)
(* A key exchange: each party generates a key pair, receives the other's   *)
(* public key and derives the shared key from it and its own private key.  *)
(***************************************************************************)
NoRequest == [op |-> "none", theirPublicKey |-> nil, privateKey |-> nil]

InitExchange ==
    /\ request = NoRequest
    /\ call = NoCall
    /\ keys = [p \in Party |-> NoKeys]
    /\ shared = [p \in Party |-> NotDerived]
    /\ globals = PackageVars
    /\ frames = [g \in Goroutine |-> Idle]

PartyGenerateKeyPair(p) ==
    /\ keys[p] = NoKeys
    /\ \E rand \in Readers(2 * PrivateKeySize) :
         LET r == GenerateKeyPair(rand)
         IN  keys' = [keys EXCEPT ![p] = [publicKey |-> r.publicKey,
                                           privateKey |-> r.privateKey]]
    /\ UNCHANGED <<request, call, shared, globals, frames>>

PartySharedKey(p) ==
    /\ keys[p] # NoKeys
    /\ keys[Peer(p)] # NoKeys
    /\ ~shared[p].called
    /\ \E rand \in Readers(PrivateKeySize) :
         LET r == SharedKey(rand, keys[Peer(p)].publicKey, keys[p].privateKey)
         IN  shared' = [shared EXCEPT ![p] = [called |-> TRUE,
                                               sharedKey |-> r.result,
                                               err |-> r.err]]
    /\ UNCHANGED <<request, call, keys, globals, frames>>

NextExchange ==
    \/ \E p \in Party : PartyGenerateKeyPair(p)
    \/ \E p \in Party : PartySharedKey(p)

SpecExchange == InitExchange /\ [][NextExchange]_vars

(***************************************************************************)
(* Concurrent callers: each goroutine runs one call, statement by          *)
(* statement, reading the package variables where the code reads them.     *)
(***************************************************************************)
EdgeKeys(n) == {Zeros(n), Maxes(n)}

\* The public key bytes of value v.
KeyOf(v) == [i \in 1 .. PublicKeySize |->
                (v \div Pow(ByteBase, PublicKeySize - i)) % ByteBase]

GoCalls ==
    {[op |-> "GenerateKeyPair", theirPublicKey |-> nil, privateKey |-> nil,
      rand |-> r] :
        r \in EdgeKeys(2 * PrivateKeySize) \cup EdgeKeys(PrivateKeySize)}
    \cup {[op |-> "GeneratePublicKey", theirPublicKey |-> nil, privateKey |-> k,
             rand |-> r] :
        k \in EdgeKeys(PrivateKeySize) \cup {Zeros(PrivateKeySize + 1)},
        r \in EdgeKeys(PrivateKeySize)}
    \cup {[op |-> "SharedKey", theirPublicKey |-> t, privateKey |-> k,
             rand |-> r] :
        t \in {KeyOf(generator), KeyOf(modulus - 1), KeyOf(modulus)},
        k \in EdgeKeys(PrivateKeySize),
        r \in {Maxes(PrivateKeySize), <<>>}}

InitGo ==
    /\ request = NoRequest
    /\ call = NoCall
    /\ keys = [p \in Party |-> NoKeys]
    /\ shared = [p \in Party |-> NotDerived]
    /\ globals = PackageVars
    /\ frames = [g \in Goroutine |-> Idle]

\* The frame f after its call returned (result, err) from blindedModExp or
\* from a check before it, through the returns of the calling functions.
Return(f, result, err) ==
    IF f.op = "GenerateKeyPair"
    THEN [f EXCEPT !.pc = "done", !.err = err,
                   !.publicKey = IF err # NoErr THEN nil ELSE result,
                   !.privateKeyOut = IF err # NoErr THEN nil ELSE f.privateKey]
    ELSE IF f.op = "GeneratePublicKey"
    THEN [f EXCEPT !.pc = "done", !.err = err, !.publicKey = result]
    ELSE [f EXCEPT !.pc = "done", !.err = err, !.sharedKey = result]

Step(g, f) ==
    /\ frames' = [frames EXCEPT ![g] = f]
    /\ UNCHANGED <<request, call, keys, shared, globals>>

Go(g) ==
    /\ frames[g].pc = "idle"
    /\ \E c \in GoCalls :
         Step(g, [Idle EXCEPT !.pc = c.op, !.op = c.op,
                              !.theirPublicKey = c.theirPublicKey,
                              !.privateKey = c.privateKey,
                              !.rand0 = c.rand, !.rand = c.rand])

\* GenerateKeyPair, lines 59-63.
KeyPairRead(g) ==
    LET f == frames[g]
        rd == ReadFull(f.rand, PrivateKeySize)
    IN  /\ f.pc = "GenerateKeyPair"
        /\ IF rd.err # NoErr
           THEN Step(g, [f EXCEPT !.pc = "done", !.err = rd.err,
                                  !.rand = rd.rest,
                                  !.reads = Append(f.reads, rd.n)])
           ELSE Step(g, [f EXCEPT !.pc = "GeneratePublicKey",
                                  !.privateKey = rd.buf, !.rand = rd.rest,
                                  !.reads = Append(f.reads, rd.n)])

\* GeneratePublicKey, lines 76-80.
PublicKeyCheck(g) ==
    LET f == frames[g]
    IN  /\ f.pc = "GeneratePublicKey"
        /\ IF Len(f.privateKey) # PrivateKeySize
           THEN Step(g, Return(f, nil, ErrPrivateKeySize))
           ELSE Step(g, [f EXCEPT !.pc = "setbytes", !.aIsGenerator = TRUE])

\* SharedKey, lines 127-139.
SharedKeyCheck(g) ==
    LET f == frames[g]
        bp == SetBytes(f.theirPublicKey)
    IN  /\ f.pc = "SharedKey"
        /\ IF Len(f.theirPublicKey) # PublicKeySize
           THEN Step(g, Return(f, nil, ErrPublicKeySize))
           ELSE IF Len(f.privateKey) # PrivateKeySize
           THEN Step(g, Return(f, nil, ErrPrivateKeySize))
           ELSE IF bp >= globals.modulus
           THEN Step(g, Return(f, nil, ErrPublicKeyTooLarge))
           ELSE Step(g, [f EXCEPT !.pc = "setbytes", !.bp = bp])

\* blindedModExp, line 85.
EngineSetBytes(g) ==
    LET f == frames[g]
    IN  /\ f.pc = "setbytes"
        /\ Step(g, [f EXCEPT !.pc = "add", !.priv = SetBytes(f.privateKey)])

\* blindedModExp, lines 86-89: one priv.Add(priv, twoExp256).
EngineAdd(g) ==
    LET f == frames[g]
    IN  /\ f.pc = "add"
        /\ Step(g, [f EXCEPT !.priv = f.priv + globals.twoExp256,
                             !.adds = f.adds + 1,
                             !.pc = IF f.adds + 1 = 4 THEN "read" ELSE "add"])

\* blindedModExp, lines 92-95.
EngineRead(g) ==
    LET f == frames[g]
        rd == ReadFull(f.rand, PrivateKeySize)
    IN  /\ f.pc = "read"
        /\ IF rd.err # NoErr
           THEN Step(g, [Return(f, nil, rd.err) EXCEPT
                             !.rand = rd.rest, !.reads = Append(f.reads, rd.n)])
           ELSE Step(g, [f EXCEPT !.pc = "blinding", !.rand = rd.rest,
                                  !.reads = Append(f.reads, rd.n),
                                  !.blinding = SetBytes(rd.buf)])

\* blindedModExp, line 97: blinding.Add(blinding, twoExp256).
EngineBlindingAliased(g) ==
    LET f == frames[g]
    IN  /\ f.pc = "blinding"
        /\ frames' = [frames EXCEPT ![g] = [f EXCEPT !.pc = "sub"]]
        /\ globals' = [globals EXCEPT
                           !.twoExp256 = f.blinding + globals.twoExp256]
        /\ UNCHANGED <<request, call, keys, shared>>
EngineBlinding(g) ==
    LET f == frames[g]
    IN  /\ f.pc = "blinding"
        /\ Step(g, [f EXCEPT !.pc = "sub",
                             !.blinding = f.blinding + globals.twoExp256])

\* blindedModExp, line 100.
EngineSub(g) ==
    LET f == frames[g]
    IN  /\ f.pc = "sub"
        /\ Step(g, [f EXCEPT !.pc = "exp1", !.priv = f.priv - f.blinding,
                             !.privBlinded = f.priv - f.blinding])

\* The value a points to: the package's generator, or SharedKey's local bp.
Base(f) == IF f.aIsGenerator THEN globals.generator ELSE f.bp

\* blindedModExp, line 103.
EngineExp1(g) ==
    LET f == frames[g]
    IN  /\ f.pc = "exp1"
        /\ Step(g, [f EXCEPT !.pc = "exp2",
                             !.r1 = Exp(Base(f), f.blinding, globals.modulus)])

\* blindedModExp, line 104.
EngineExp2(g) ==
    LET f == frames[g]
    IN  /\ f.pc = "exp2"
        /\ Step(g, [f EXCEPT !.pc = "mul",
                             !.r2 = Exp(Base(f), f.privBlinded, globals.modulus)])

\* blindedModExp, lines 107-108.
EngineMul(g) ==
    LET f == frames[g]
    IN  /\ f.pc = "mul"
        /\ IF f.r1 = ExpNil \/ f.r2 = ExpNil
           THEN Step(g, Return(f, nil, PanicNilDeref))
           ELSE Step(g, [f EXCEPT !.pc = "encode",
                                  !.r1 = (f.r1 * f.r2) % globals.modulus])

\* blindedModExp, lines 110-118, and the returns to the caller.
EngineEncode(g) ==
    LET f == frames[g]
        result == make(PublicKeySize)
        rb == Bytes(f.r1)
    IN  /\ f.pc = "encode"
        /\ IF BitLen(f.r1) > BitLen(globals.modulus)
           THEN Step(g, Return(f, nil, ErrResultTooLarge))
           ELSE IF Len(rb) > Len(result)
           THEN Step(g, Return(f, nil, PanicSliceBounds))
           ELSE Step(g, Return(f, SubSeq(result, 1, Len(result) - Len(rb)) \o rb,
                               NoErr))

NextGo ==
    \E g \in Goroutine :
        \/ Go(g)
        \/ KeyPairRead(g)
        \/ PublicKeyCheck(g)
        \/ SharedKeyCheck(g)
        \/ EngineSetBytes(g)
        \/ EngineAdd(g)
        \/ EngineRead(g)
        \/ EngineBlinding(g)
        \/ EngineSub(g)
        \/ EngineExp1(g)
        \/ EngineExp2(g)
        \/ EngineMul(g)
        \/ EngineEncode(g)

SpecGo == InitGo /\ [][NextGo]_vars

(***************************************************************************)
(* Reference definitions for the properties: the value of a byte slice,    *)
(* exponentiation by repeated multiplication, and what a call was given.   *)
(***************************************************************************)
RECURSIVE Value(_)
Value(buf) ==
    IF Len(buf) = 0 THEN 0
    ELSE Head(buf) * Pow(ByteBase, Len(buf) - 1) + Value(Tail(buf))

\* 2^257 and 2^258 at the model's scale.
TwoExp257 == 2 * twoExp256
TwoExp258 == 4 * twoExp256

\* b^e mod m by e multiplications.
RECURSIVE SlowPow(_, _, _)
SlowPow(b, e, m) == IF e = 0 THEN 1 % m ELSE (b * SlowPow(b, e - 1, m)) % m

\* b^e mod modulus, as (b^16)^(e div 16) * b^(e mod 16), each power by
\* repeated multiplication.
RefPow(b, e) ==
    (SlowPow(SlowPow(b, 16, modulus), e \div 16, modulus)
        * SlowPow(b, e % 16, modulus)) % modulus

ReaderErrors == {ErrEOF, ErrUnexpectedEOF}
ValidationErrors == {ErrPrivateKeySize, ErrPublicKeySize, ErrPublicKeyTooLarge}

\* The arguments of call c pass every check of the function called.
Accepted(c) ==
    \/ c.op = "GenerateKeyPair"
    \/ c.op = "GeneratePublicKey" /\ Len(c.privateKey) = PrivateKeySize
    \/ /\ c.op = "SharedKey"
       /\ Len(c.theirPublicKey) = PublicKeySize
       /\ Len(c.privateKey) = PrivateKeySize
       /\ Value(c.theirPublicKey) < modulus

\* The reader of call c holds the bytes the call asks for.
ReaderWorks(c) ==
    Len(c.rand) >= (IF c.op = "GenerateKeyPair" THEN 2 * PrivateKeySize
                    ELSE PrivateKeySize)

BaseOf(c) == IF c.op = "SharedKey" THEN Value(c.theirPublicKey) ELSE generator
PrivOf(c) ==
    IF c.op = "GenerateKeyPair" THEN SubSeq(c.rand, 1, PrivateKeySize)
    ELSE c.privateKey
BlindingBytesOf(c) ==
    IF c.op = "GenerateKeyPair"
    THEN SubSeq(c.rand, PrivateKeySize + 1, 2 * PrivateKeySize)
    ELSE SubSeq(c.rand, 1, PrivateKeySize)
ResultOf(c) == IF c.op = "SharedKey" THEN c.sharedKey ELSE c.publicKey
Engaged(c) == c.op # "none" /\ Accepted(c) /\ ReaderWorks(c)

Sum(reads) ==
    IF Len(reads) = 0 THEN 0
    ELSE IF Len(reads) = 1 THEN reads[1] ELSE reads[1] + reads[2]

(***************************************************************************)
(* Properties.                                                             *)
(***************************************************************************)

\* C1: in an exchange between two parties that each generated a key pair,
\* SharedKey(pubB, privA) and SharedKey(pubA, privB) succeed whenever their
\* readers deliver, and return the same SharedKeySize bytes, whatever the
\* blinding bytes of the four calls were.
C1_Agreement ==
    /\ \A p \in Party :
          shared[p].called /\ shared[p].err \notin ReaderErrors
              => /\ shared[p].err = NoErr
                 /\ Len(shared[p].sharedKey) = SharedKeySize
    /\ (\A p \in Party : shared[p].called /\ shared[p].err = NoErr)
          => shared["A"].sharedKey = shared["B"].sharedKey

C1_Witness ==
    /\ \A p \in Party : shared[p].called /\ shared[p].err = NoErr
    /\ keys["A"].privateKey # keys["B"].privateKey
    /\ keys["A"].publicKey # keys["B"].publicKey
    /\ Value(shared["A"].sharedKey) > 1

\* C2: whenever the engine runs (arguments accepted, blinding read), the call
\* returns the PublicKeySize-byte big-endian encoding of
\* base^(2^258 + privateKey) mod modulus, computed without blinding; the
\* result therefore does not depend on the blinding bytes.
C2_BlindingTransparent ==
    Engaged(call)
        => /\ call.err = NoErr
           /\ ResultOf(call) =
                  KeyOf(RefPow(BaseOf(call), TwoExp258 + Value(PrivOf(call))))

C2_Witness ==
    /\ call.op = "SharedKey"
    /\ call.err = NoErr
    /\ BaseOf(call) > 2
    /\ Value(call.privateKey) > 0
    /\ Value(BlindingBytesOf(call)) > Value(call.privateKey)
    /\ Value(call.sharedKey) > 1

\* C3: whenever the engine runs, the result is below the modulus, the
\* "result is too large" error does not occur, and the key returned has
\* exactly PublicKeySize bytes (left-padded with zeros).
C3_NoOverflow ==
    Engaged(call)
        => /\ call.err # ErrResultTooLarge
           /\ call.err = NoErr
           /\ Len(ResultOf(call)) = PublicKeySize
           /\ Value(ResultOf(call)) < modulus

C3_Witness ==
    /\ call.op = "SharedKey"
    /\ call.privateKey = Maxes(PrivateKeySize)
    /\ Value(call.theirPublicKey) = modulus - 1
    /\ call.rand = Zeros(PrivateKeySize)
    /\ call.err = NoErr
    /\ Len(call.sharedKey) = PublicKeySize
    /\ Value(call.sharedKey) \in {1, modulus - 1}

\* C4: SharedKey fails with the wrong-public-key-size error whenever the peer
\* key has not PublicKeySize bytes; with a peer key of PublicKeySize bytes and
\* a private key of PrivateKeySize bytes it fails with the
\* public-key-too-large error exactly when the peer key's value is >= modulus,
\* and a smaller peer key reaches the engine.
C4_PeerKeyValidation ==
    call.op = "SharedKey"
        => /\ Len(call.theirPublicKey) # PublicKeySize
                 => call.err = ErrPublicKeySize
           /\ Len(call.theirPublicKey) = PublicKeySize
                 /\ Len(call.privateKey) = PrivateKeySize
                 => /\ call.err = ErrPublicKeyTooLarge
                          <=> Value(call.theirPublicKey) >= modulus
                    /\ Value(call.theirPublicKey) < modulus
                          => Len(call.reads) = 1

C4_Witness ==
    /\ call.op = "SharedKey"
    /\ call.theirPublicKey = KeyOf(modulus)
    /\ Len(call.privateKey) = PrivateKeySize
    /\ call.err = ErrPublicKeyTooLarge

\* C5: GeneratePublicKey fails with the wrong-private-key-size error if and
\* only if the private key has not PrivateKeySize bytes; SharedKey with a peer
\* key of PublicKeySize bytes fails with that error whenever the private key
\* has not PrivateKeySize bytes, whatever the peer key's value.
C5_PrivateKeySize ==
    /\ call.op = "GeneratePublicKey"
          => (call.err = ErrPrivateKeySize
                  <=> Len(call.privateKey) # PrivateKeySize)
    /\ call.op = "SharedKey"
          /\ Len(call.theirPublicKey) = PublicKeySize
          /\ Len(call.privateKey) # PrivateKeySize
          => call.err = ErrPrivateKeySize

C5_Witness ==
    /\ call.op = "SharedKey"
    /\ Len(call.theirPublicKey) = PublicKeySize
    /\ Value(call.theirPublicKey) > modulus
    /\ Len(call.privateKey) = PrivateKeySize + 1
    /\ call.err = ErrPrivateKeySize

\* C6: a call that returns an error returns nil for every byte slice, also
\* GenerateKeyPair when the private key was read and the blinding read
\* failed; and no read follows a failed read.
C6_NoPartialKeys ==
    call.op # "none" /\ call.err # NoErr
        => /\ call.publicKey = nil
           /\ call.privateKeyOut = nil
           /\ call.sharedKey = nil
           /\ \A i \in 1 .. (Len(call.reads) - 1) :
                  call.reads[i] = PrivateKeySize
           /\ call.err \in ReaderErrors
                  => /\ Len(call.reads) >= 1
                     /\ call.reads[Len(call.reads)] < PrivateKeySize
                     /\ Sum(call.reads) = Len(call.rand)

C6_Witness ==
    /\ call.op = "GenerateKeyPair"
    /\ Len(call.rand) = 2 * PrivateKeySize - 1
    /\ call.reads = <<PrivateKeySize, PrivateKeySize - 1>>
    /\ call.err = ErrUnexpectedEOF
    /\ call.privateKeyOut = nil

\* C8: a successful GeneratePublicKey or SharedKey reads exactly
\* PrivateKeySize bytes; a successful GenerateKeyPair reads exactly twice
\* that, returns the first PrivateKeySize bytes as the private key and uses
\* the next PrivateKeySize bytes as the blinding; a call rejected by the
\* validation of its arguments reads nothing.
C8_RandomnessRead ==
    /\ call.op \in {"GeneratePublicKey", "SharedKey"} /\ call.err = NoErr
          => /\ call.reads = <<PrivateKeySize>>
             /\ call.exps[1] = Value(BlindingBytesOf(call)) + twoExp256
    /\ call.op = "GenerateKeyPair" /\ call.err = NoErr
          => /\ call.reads = <<PrivateKeySize, PrivateKeySize>>
             /\ call.privateKeyOut = SubSeq(call.rand, 1, PrivateKeySize)
             /\ call.exps[1] = Value(BlindingBytesOf(call)) + twoExp256
    /\ call.err \in ValidationErrors => call.reads = <<>>

C8_Witness ==
    /\ call.op = "GenerateKeyPair"
    /\ call.err = NoErr
    /\ Len(call.rand) = 2 * PrivateKeySize + 1
    /\ call.privateKeyOut = Maxes(PrivateKeySize)
    /\ call.exps[1] = TwoExp257 - 1

\* C9: whenever the engine runs, the blinding exponent is in [2^256, 2^257)
\* and the remainder exponent (2^258 + privateKey) - blinding is in
\* [2^257 + 1, 2^258 - 1]: it is positive, and Exp never gets a negative
\* exponent.
C9_ExponentRanges ==
    Engaged(call)
        => /\ Len(call.exps) = 2
           /\ twoExp256 <= call.exps[1] /\ call.exps[1] < TwoExp257
           /\ TwoExp257 + 1 <= call.exps[2] /\ call.exps[2] <= TwoExp258 - 1
           /\ call.exps[1] + call.exps[2] = TwoExp258 + Value(PrivOf(call))

C9_Witness ==
    /\ call.op = "GeneratePublicKey"
    /\ call.err = NoErr
    /\ call.exps = <<TwoExp257 - 1, TwoExp257 + 1>>

\* C10: SharedKey with a peer key of value 0 or 1 and a private key of
\* PrivateKeySize bytes succeeds whenever its reader delivers, and returns the
\* shared key of that same value, whatever the private key and the blinding.
C10_DegeneratePeerKeys ==
    /\ call.op = "SharedKey"
    /\ call.theirPublicKey \in {KeyOf(0), KeyOf(1)}
    /\ Len(call.privateKey) = PrivateKeySize
    /\ ReaderWorks(call)
    => /\ call.err = NoErr
       /\ call.sharedKey = call.theirPublicKey

C10_Witness ==
    /\ call.op = "SharedKey"
    /\ call.theirPublicKey = KeyOf(1)
    /\ call.privateKey = Maxes(PrivateKeySize)
    /\ call.err = NoErr
    /\ Value(call.sharedKey) = 1

\* What the call of frame f returns when it runs alone.
Alone(f) ==
    IF f.op = "GenerateKeyPair"
    THEN LET r == GenerateKeyPair(f.rand0)
         IN  [publicKey |-> r.publicKey, privateKeyOut |-> r.privateKey,
              sharedKey |-> nil, err |-> r.err, reads |-> r.reads]
    ELSE IF f.op = "GeneratePublicKey"
    THEN LET r == GeneratePublicKey(f.rand0, f.privateKey)
         IN  [publicKey |-> r.result, privateKeyOut |-> nil, sharedKey |-> nil,
              err |-> r.err, reads |-> r.reads]
    ELSE LET r == SharedKey(f.rand0, f.theirPublicKey, f.privateKey)
         IN  [publicKey |-> nil, privateKeyOut |-> nil, sharedKey |-> r.result,
              err |-> r.err, reads |-> r.reads]

Returned(f) ==
    [publicKey |-> f.publicKey, privateKeyOut |-> f.privateKeyOut,
     sharedKey |-> f.sharedKey, err |-> f.err, reads |-> f.reads]

\* C7: under every interleaving of the statements of concurrent calls, the
\* package variables keep their initial values, and every call that returned
\* returned what it returns when run alone on the same arguments and reader.
C7_NoSharedWrites ==
    /\ globals = PackageVars
    /\ \A g \in Goroutine :
          frames[g].pc = "done" => Returned(frames[g]) = Alone(frames[g])

C7_Witness ==
    /\ frames["g1"].pc = "done"
    /\ frames["g1"].op = "GenerateKeyPair"
    /\ frames["g1"].err = NoErr
    /\ frames["g2"].pc = "exp2"
    /\ frames["g2"].op = "SharedKey"
====
